---- MODULE Spec2Model ----
(***************************************************************************)
(* A model of apprise/Apprise.py: the Apprise notification manager.        *)
(*                                                                         *)
(* The manager keeps an ordered list `servers` that mixes notification     *)
(* plugins (NotifyBase instances, "targets") and configuration objects     *)
(* (ConfigBase / AppriseConfig instances, "configs") that expand to a list *)
(* of plugins.  The model covers add / clear / pop / __getitem__ / find /  *)
(* __iter__ / __len__ and the two dispatch strategies behind notify().     *)
(***************************************************************************)
EXTENDS Integers, Sequences, FiniteSets, TLC

VARIABLES
    servers,        \* self.servers: the ordered list of entries
    cfg,            \* the plugin list each configuration object holds
    op,             \* the last add/clear/pop/get/find call and what it returned
    pc,             \* where the current notify() call is
    call,           \* the arguments of the current notify() call
    todo,           \* what the find() generator still has to yield
    conversion_map, \* _notifyall's conversion_map
    title,          \* _notifyall's local variable title
    yielded,        \* what the handler returned for each server, in order
    invoked,        \* the server.notify() calls made so far, in order
    accesses,       \* for each use of conversion_map, the calls made before it
    result,         \* what notify() returned (or that it raised)
    prev            \* the outcome of the same call under the other strategy

vars == <<servers, cfg, op, pc, call, todo, conversion_map, title, yielded,
          invoked, accesses, result, prev>>

dispatchVars == <<pc, call, todo, conversion_map, title, yielded, invoked,
                  accesses, result, prev>>

(***************************************************************************)
(* Bounds of the model.                                                    *)
(***************************************************************************)
MaxServers == 3     \* longest self.servers list explored
MaxAdd == 2         \* longest list handed to one add() call
MaxFanout == 2      \* longest self.servers list a notify() is run on
MaxLen == 3         \* longest body the TEXT to HTML conversion is run on

(***************************************************************************)
(* The plugins and configuration objects the caller has at hand.  A plugin *)
(* is known by its tag set, its notify_format and its asset's async_mode.  *)
(***************************************************************************)
Targets == {"t1", "t2", "t3"}
Configs == {"c1", "c2"}

TEXT == "text"
HTML == "html"
MARKDOWN == "markdown"

tags == [t1 |-> {}, t2 |-> {"a"}, t3 |-> {"a", "b"}]
notify_format == [t1 |-> TEXT, t2 |-> HTML, t3 |-> HTML]
async_mode == [t1 |-> TRUE, t2 |-> FALSE, t3 |-> TRUE]

\* c1 is a configuration file that loaded nothing, c2 one that loaded two plugins
InitCfg == [c1 |-> <<>>, c2 |-> <<"t2", "t3">>]

TargetEntry(t) == [kind |-> "target", id |-> t]
ConfigEntry(c) == [kind |-> "config", id |-> c]
Entries == {TargetEntry(t) : t \in Targets} \cup {ConfigEntry(c) : c \in Configs}

\* isinstance(s, (ConfigBase, AppriseConfig))
IsConfig(s) == s.kind = "config"

None == "None"

SeqsUpTo(S, n) == UNION {[1..k -> S] : k \in 0..n}

(***************************************************************************)
(* The configuration object's side of the contract.                        *)
(***************************************************************************)
\* s.servers(): the plugins a configuration object expands to
ConfigServers(cf, c) == cf[c]

\* a Python list subscript: negative indexes count from the end
ListGet(lst, i) ==
    IF 0 <= i /\ i < Len(lst) THEN [raised |-> FALSE, ret |-> lst[i + 1]]
    ELSE IF i < 0 /\ 0 - i <= Len(lst)
         THEN [raised |-> FALSE, ret |-> lst[Len(lst) + i + 1]]
         ELSE [raised |-> TRUE, ret |-> None]

RemoveAt(lst, k) == [j \in 1..(Len(lst) - 1) |-> IF j < k THEN lst[j] ELSE lst[j + 1]]

\* s.pop(i) / s.server_pop(i): list.pop(i) on the plugins the object holds
ConfigPop(lst, i) ==
    IF 0 <= i /\ i < Len(lst)
    THEN [raised |-> FALSE, ret |-> lst[i + 1], rest |-> RemoveAt(lst, i + 1)]
    ELSE IF i < 0 /\ 0 - i <= Len(lst)
         THEN [raised |-> FALSE, ret |-> lst[Len(lst) + i + 1],
               rest |-> RemoveAt(lst, Len(lst) + i + 1)]
         ELSE [raised |-> TRUE, ret |-> None, rest |-> lst]

(***************************************************************************)
(* __iter__ and __len__                                                    *)
(***************************************************************************)
RECURSIVE Iter(_, _)
Iter(svs, cf) ==
    IF svs = <<>> THEN <<>>
    ELSE (IF IsConfig(Head(svs)) THEN ConfigServers(cf, Head(svs).id)
          ELSE <<Head(svs).id>>) \o Iter(Tail(svs), cf)

RECURSIVE LenOf(_, _)
LenOf(svs, cf) ==
    IF svs = <<>> THEN 0
    ELSE (IF IsConfig(Head(svs)) THEN Len(ConfigServers(cf, Head(svs).id)) ELSE 1)
         + LenOf(Tail(svs), cf)

(***************************************************************************)
(* __getitem__: the walk over self.servers with prev_offset / offset       *)
(***************************************************************************)
\* __getitem__ handing the Collection's index to the configuration object
\* without taking off what came before it
RECURSIVE GetWalkNoOffset(_, _, _, _, _)
GetWalkNoOffset(svs, cf, index, idx, prev_offset) ==
    IF idx > Len(svs) THEN [raised |-> TRUE, ret |-> None]
    ELSE LET s == svs[idx] IN
         IF IsConfig(s)
         THEN LET lst == ConfigServers(cf, s.id)
                  offset == prev_offset + Len(lst)
              IN  IF Len(lst) > 0
                  THEN IF offset >= index
                       THEN ListGet(lst, index)
                       ELSE GetWalkNoOffset(svs, cf, index, idx + 1, offset)
                  ELSE GetWalkNoOffset(svs, cf, index, idx + 1, prev_offset)
         ELSE LET offset == prev_offset + 1
              IN  IF offset = index THEN [raised |-> FALSE, ret |-> s.id]
                  ELSE GetWalkNoOffset(svs, cf, index, idx + 1, offset)

RECURSIVE GetWalk(_, _, _, _, _)
GetWalk(svs, cf, index, idx, prev_offset) ==
    IF idx > Len(svs) THEN [raised |-> TRUE, ret |-> None]
    ELSE LET s == svs[idx] IN
         IF IsConfig(s)
         THEN LET lst == ConfigServers(cf, s.id)
                  offset == prev_offset + Len(lst)
              IN  IF Len(lst) > 0
                  THEN IF offset >= index
                       THEN ListGet(lst, IF prev_offset = -1 THEN index
                                         ELSE index - prev_offset - 1)
                       ELSE GetWalk(svs, cf, index, idx + 1, offset)
                  ELSE GetWalk(svs, cf, index, idx + 1, prev_offset)
         ELSE LET offset == prev_offset + 1
              IN  IF offset = index THEN [raised |-> FALSE, ret |-> s.id]
                  ELSE GetWalk(svs, cf, index, idx + 1, offset)

GetItem(svs, cf, index) == GetWalk(svs, cf, index, 1, -1)

(***************************************************************************)
(* pop: the same walk, removing what it finds                              *)
(***************************************************************************)
\* pop dropping a configuration object from self.servers once it is emptied
RECURSIVE PopWalkDropsEmptied(_, _, _, _, _)
PopWalkDropsEmptied(svs, cf, index, idx, prev_offset) ==
    IF idx > Len(svs)
    THEN [raised |-> TRUE, ret |-> None, servers |-> svs, cfg |-> cf]
    ELSE LET s == svs[idx] IN
         IF IsConfig(s)
         THEN LET lst == ConfigServers(cf, s.id)
                  offset == prev_offset + Len(lst)
              IN  IF Len(lst) > 0
                  THEN IF offset >= index
                       THEN LET p == ConfigPop(lst, IF prev_offset = -1 THEN index
                                                    ELSE index - prev_offset - 1)
                            IN  [raised |-> p.raised, ret |-> p.ret,
                                 servers |-> IF p.rest = <<>> THEN RemoveAt(svs, idx)
                                             ELSE svs,
                                 cfg |-> [cf EXCEPT ![s.id] = p.rest]]
                       ELSE PopWalkDropsEmptied(svs, cf, index, idx + 1, offset)
                  ELSE PopWalkDropsEmptied(svs, cf, index, idx + 1, prev_offset)
         ELSE LET offset == prev_offset + 1
              IN  IF offset = index
                  THEN [raised |-> FALSE, ret |-> s.id,
                        servers |-> RemoveAt(svs, idx), cfg |-> cf]
                  ELSE PopWalkDropsEmptied(svs, cf, index, idx + 1, offset)

RECURSIVE PopWalk(_, _, _, _, _)
PopWalk(svs, cf, index, idx, prev_offset) ==
    IF idx > Len(svs)
    THEN [raised |-> TRUE, ret |-> None, servers |-> svs, cfg |-> cf]
    ELSE LET s == svs[idx] IN
         IF IsConfig(s)
         THEN LET lst == ConfigServers(cf, s.id)
                  offset == prev_offset + Len(lst)
              IN  IF Len(lst) > 0
                  THEN IF offset >= index
                       THEN LET p == ConfigPop(lst, IF prev_offset = -1 THEN index
                                                    ELSE index - prev_offset - 1)
                            IN  [raised |-> p.raised, ret |-> p.ret, servers |-> svs,
                                 cfg |-> [cf EXCEPT ![s.id] = p.rest]]
                       ELSE PopWalk(svs, cf, index, idx + 1, offset)
                  ELSE PopWalk(svs, cf, index, idx + 1, prev_offset)
         ELSE LET offset == prev_offset + 1
              IN  IF offset = index
                  THEN [raised |-> FALSE, ret |-> s.id,
                        servers |-> RemoveAt(svs, idx), cfg |-> cf]
                  ELSE PopWalk(svs, cf, index, idx + 1, offset)

PopItem(svs, cf, index) == PopWalk(svs, cf, index, 1, -1)

(***************************************************************************)
(* Tag matching and find()                                                 *)
(***************************************************************************)
MATCH_ALL_TAG == "all"

\* A tag expression after normalisation: an ordered list of OR-groups, each a
\* set of tags that must all be present.  tag=MATCH_ALL_TAG is the one-group
\* list below.
MatchAll == <<{MATCH_ALL_TAG}>>

\* is_exclusive_match(logic, data, match_all)
IsExclusiveMatch(logic, data) ==
    \/ logic = MatchAll
    \/ \E i \in 1..Len(logic) : logic[i] # {} /\ logic[i] \subseteq data

\* the inner loop of find(): the servers of one entry that match
RECURSIVE FindIn(_, _)
FindIn(lst, tag) ==
    IF lst = <<>> THEN <<>>
    ELSE (IF IsExclusiveMatch(tag, tags[Head(lst)]) THEN <<Head(lst)>> ELSE <<>>)
         \o FindIn(Tail(lst), tag)

\* find() looking only at the plugins added directly
RECURSIVE FindDirectOnly(_, _, _)
FindDirectOnly(svs, cf, tag) ==
    IF svs = <<>> THEN <<>>
    ELSE FindIn(IF IsConfig(Head(svs)) THEN <<>> ELSE <<Head(svs).id>>, tag)
         \o FindDirectOnly(Tail(svs), cf, tag)

\* find(tag): everything the generator yields, in order
RECURSIVE Find(_, _, _)
Find(svs, cf, tag) ==
    IF svs = <<>> THEN <<>>
    ELSE FindIn(IF IsConfig(Head(svs)) THEN ConfigServers(cf, Head(svs).id)
                ELSE <<Head(svs).id>>, tag)
         \o Find(Tail(svs), cf, tag)

TagExprs == {MatchAll, <<{"a"}>>, <<{"a", "b"}>>, <<{"c"}, {"b"}>>}

(***************************************************************************)
(* instantiate() and add()                                                 *)
(***************************************************************************)
\* What the caller hands to add().  A descriptor is a URL string or a
\* dictionary (with what the plugin registry makes of it: whether it parses to
\* a known schema, whether the plugin's constructor accepts it, which plugin
\* it builds), an object of some other type, or a ready instance.
Descriptor(type, parses, ctor, entry) ==
    [type |-> type, parses |-> parses, ctor |-> ctor, entry |-> entry]

StrDescriptors ==
    { Descriptor("str", TRUE, TRUE, TargetEntry("t1")),
      Descriptor("str", FALSE, TRUE, TargetEntry("t1")),
      Descriptor("str", TRUE, FALSE, TargetEntry("t1")) }

DictDescriptors ==
    { Descriptor("dict", TRUE, TRUE, TargetEntry("t3")),
      Descriptor("dict", FALSE, TRUE, TargetEntry("t1")) }

InstanceDescriptors ==
    { Descriptor("instance", TRUE, TRUE, ConfigEntry("c1")),
      Descriptor("instance", TRUE, TRUE, ConfigEntry("c2")),
      Descriptor("instance", TRUE, TRUE, TargetEntry("t3")) }

OtherDescriptors == { Descriptor("other", FALSE, FALSE, TargetEntry("t1")) }

Descriptors ==
    StrDescriptors \cup DictDescriptors \cup InstanceDescriptors \cup OtherDescriptors

\* instantiate(url, asset, tag) with suppress_exceptions=True: the plugin built,
\* or None
Instantiate(d) ==
    IF d.type = "str"
    THEN IF ~d.parses THEN None              \* url_to_dict returned None
         ELSE IF d.ctor THEN d.entry.id ELSE None
    ELSE IF d.type = "dict"
         THEN IF ~d.parses THEN None         \* schema not in SCHEMA_MAP
              ELSE IF d.ctor THEN d.entry.id ELSE None
         ELSE None                           \* an invalid URL type

\* add() giving up at the first server that fails to load
RECURSIVE AddLoopStopsAtFailure(_, _, _)
AddLoopStopsAtFailure(items, svs, return_status) ==
    IF items = <<>> THEN [servers |-> svs, ret |-> return_status]
    ELSE LET _server == Head(items) IN
         IF _server.type = "instance"
         THEN AddLoopStopsAtFailure(Tail(items), Append(svs, _server.entry),
                                    return_status)
         ELSE IF _server.type \notin {"str", "dict"}
              THEN [servers |-> svs, ret |-> FALSE]
              ELSE LET instance == Instantiate(_server) IN
                   IF instance = None
                   THEN [servers |-> svs, ret |-> FALSE]
                   ELSE AddLoopStopsAtFailure(Tail(items),
                                              Append(svs, TargetEntry(instance)),
                                              return_status)

\* the for loop of add() over the list of servers
RECURSIVE AddLoop(_, _, _)
AddLoop(items, svs, return_status) ==
    IF items = <<>> THEN [servers |-> svs, ret |-> return_status]
    ELSE LET _server == Head(items) IN
         IF _server.type = "instance"
         THEN AddLoop(Tail(items), Append(svs, _server.entry), return_status)
         ELSE IF _server.type \notin {"str", "dict"}
              THEN AddLoop(Tail(items), svs, FALSE)
              ELSE LET instance == Instantiate(_server) IN
                   IF instance = None
                   THEN AddLoop(Tail(items), svs, FALSE)
                   ELSE AddLoop(Tail(items), Append(svs, TargetEntry(instance)),
                                return_status)

\* The argument of add(): a string (items: what parse_urls makes of it), a
\* dictionary, an instance, a list/tuple/set, or an object of another type.
AddArg(form, items) == [form |-> form, items |-> items]

\* the arguments explored: those that name at most n servers
AddArgs(n) ==
    {AddArg("str", l) : l \in SeqsUpTo(StrDescriptors, n)}
    \cup {AddArg("dict", <<d>>) : d \in IF n > 0 THEN DictDescriptors ELSE {}}
    \cup {AddArg("instance", <<d>>) : d \in IF n > 0 THEN InstanceDescriptors ELSE {}}
    \cup {AddArg("list", l) : l \in SeqsUpTo(Descriptors, n)}
    \cup {AddArg("other", <<>>)}

Min(a, b) == IF a < b THEN a ELSE b

\* add(servers): the new self.servers and the value returned
AddResult(svs, a) ==
    IF a.form = "str"
    THEN IF Len(a.items) = 0 THEN [servers |-> svs, ret |-> FALSE]
         ELSE AddLoop(a.items, svs, TRUE)
    ELSE IF a.form = "dict" THEN AddLoop(a.items, svs, TRUE)
    ELSE IF a.form = "instance"
         THEN [servers |-> Append(svs, a.items[1].entry), ret |-> TRUE]
    ELSE IF a.form = "list" THEN AddLoop(a.items, svs, TRUE)
    ELSE [servers |-> svs, ret |-> FALSE]

(***************************************************************************)
(* The calls on the collection.  op records the call and its outcome.      *)
(***************************************************************************)
\* name: the method called; arg, tag, index: its argument; ret: the plugin
\* returned (get, pop); status: the value returned (add); found: what was
\* yielded (find); raised: whether IndexError was raised; pre_servers, pre_cfg:
\* the Collection as the call found it
NoOp ==
    [name |-> "none", arg |-> AddArg("none", <<>>), tag |-> <<>>, index |-> 0,
     ret |-> None, status |-> TRUE, found |-> <<>>, raised |-> FALSE,
     pre_servers |-> <<>>, pre_cfg |-> InitCfg]

OpRecord(name) == [NoOp EXCEPT !.name = name, !.pre_servers = servers, !.pre_cfg = cfg]

\* the indexes explored on a Collection of n plugins: no configuration object
\* holds more than two plugins, so -3 is below the range of every list
Indices(n) == (0 - 3) .. (n + 1)

Add(a) ==
    /\ pc = "idle"
    /\ LET r == AddResult(servers, a) IN
       /\ servers' = r.servers
       /\ op' = [OpRecord("add") EXCEPT !.arg = a, !.status = r.ret]
    /\ UNCHANGED <<cfg, dispatchVars>>

Clear ==
    /\ pc = "idle"
    /\ servers' = <<>>
    /\ op' = OpRecord("clear")
    /\ UNCHANGED <<cfg, dispatchVars>>

Pop(index) ==
    /\ pc = "idle"
    /\ LET r == PopItem(servers, cfg, index) IN
       /\ servers' = r.servers
       /\ cfg' = r.cfg
       /\ op' = [OpRecord("pop") EXCEPT !.index = index, !.ret = r.ret,
                                      !.raised = r.raised]
    /\ UNCHANGED dispatchVars

Get(index) ==
    /\ pc = "idle"
    /\ LET r == GetItem(servers, cfg, index) IN
       op' = [OpRecord("get") EXCEPT !.index = index, !.ret = r.ret,
                                     !.raised = r.raised]
    /\ UNCHANGED <<servers, cfg, dispatchVars>>

FindCall(tag) ==
    /\ pc = "idle"
    /\ op' = [OpRecord("find") EXCEPT !.tag = tag, !.found = Find(servers, cfg, tag)]
    /\ UNCHANGED <<servers, cfg, dispatchVars>>


(***************************************************************************)
(* Message content.  A text is a sequence of characters; the conversions   *)
(* below work on it character by character.                                *)
(***************************************************************************)
BS == "\\"
LF == "\n"
CR == "\r"
TAB == "\t"

Formats == {TEXT, HTML, MARKDOWN}

NBSP == <<"&", "n", "b", "s", "p", ";">>

\* re_map: the keys of the TEXT to HTML table and what replaces each.  The key
\* written r'\t' is the two characters backslash and t.
ReKeys == {<<"&">>, <<" ">>, <<BS, "t">>, <<">">>, <<"<">>}

ReMap ==
    [key \in ReKeys |->
        IF key = <<"&">> THEN <<"&", "a", "m", "p", ";">>
        ELSE IF key = <<" ">> THEN NBSP
        ELSE IF key = <<BS, "t">> THEN NBSP \o NBSP \o NBSP
        ELSE IF key = <<">">> THEN <<"&", "g", "t", ";">>
        ELSE <<"&", "l", "t", ";">>]

\* re.IGNORECASE: the one letter among the keys
Lower(c) == IF c = "T" THEN "t" ELSE c

\* what re_table matches at the start of s: one of the keys in either case, or
\* nothing
MatchAt(s) ==
    IF Len(s) >= 2 /\ <<Lower(s[1]), Lower(s[2])>> \in ReKeys THEN SubSeq(s, 1, 2)
    ELSE IF s # <<>> /\ <<Lower(s[1])>> \in ReKeys THEN SubSeq(s, 1, 1)
    ELSE <<>>

\* re_table.sub(lambda x: re_map[x.group()], body): ok is false when the lookup
\* of the matched text in re_map raises KeyError
RECURSIVE ReTableSub(_)
ReTableSub(body) ==
    IF body = <<>> THEN [ok |-> TRUE, s |-> <<>>]
    ELSE LET m == MatchAt(body) IN
         IF m = <<>>
         THEN LET r == ReTableSub(Tail(body))
              IN  [ok |-> r.ok, s |-> <<Head(body)>> \o r.s]
         ELSE IF m \notin ReKeys
              THEN [ok |-> FALSE, s |-> <<>>]
              ELSE LET r == ReTableSub(SubSeq(body, Len(m) + 1, Len(body)))
                   IN  [ok |-> r.ok, s |-> ReMap[m] \o r.s]

\* the text left once a leading run of carriage returns is taken off
RECURSIVE SkipCR(_)
SkipCR(s) == IF s # <<>> /\ Head(s) = CR THEN SkipCR(Tail(s)) ELSE s

\* re.sub(r'\r*\n', '<br/>\r\n', s)
RECURSIVE NewlinesToBr(_)
NewlinesToBr(s) ==
    IF s = <<>> THEN <<>>
    ELSE LET rest == SkipCR(s) IN
         IF rest # <<>> /\ Head(rest) = LF
         THEN <<"<", "b", "r", "/", ">", CR, LF>> \o NewlinesToBr(Tail(rest))
         ELSE <<Head(s)>> \o NewlinesToBr(Tail(s))

\* the TEXT to HTML branch: ok is false when it raises KeyError
TextToHtml(body) ==
    LET r == ReTableSub(body)
    IN  [ok |-> r.ok, s |-> IF r.ok THEN NewlinesToBr(r.s) ELSE <<>>]

\* markdown(body), the markdown library's rendering, for a body that is one
\* paragraph of plain characters
Markdown(body) ==
    IF body = <<>> THEN <<>>
    ELSE <<"<", "p", ">">> \o body \o <<"<", "/", "p", ">">>

\* A value handed to notify() as body or title: its characters and whether it
\* is text (a value that is not, bytes for one, has no encode() and is no
\* subject for a text pattern).
Content(text, s) == [text |-> text, s |-> s]

\* The outcome of filling conversion_map[server.notify_format]: the value
\* stored, or the exception raised instead.
Converted(text, s) == [fault |-> "none", text |-> text, s |-> s]
ConvertFault(e) == [fault |-> e, text |-> TRUE, s |-> <<>>]

\* markdown() on a value that is not text: the library is not part of this
\* source, so any of its outcomes is possible (a TypeError, another exception,
\* a rendering of the value's printed form)
MarkdownOfNonText(s) ==
    {ConvertFault("TypeError"), ConvertFault("other"), Converted(TRUE, Markdown(s))}

\* what conversion_map[server.notify_format] is first set to: the possible
\* outcomes
Convert(body_format, server_format, body) ==
    IF body_format = MARKDOWN /\ server_format = HTML
    THEN IF body.text THEN {Converted(TRUE, Markdown(body.s))}
         ELSE MarkdownOfNonText(body.s)
    ELSE IF body_format = TEXT /\ server_format = HTML
         THEN IF ~body.text THEN {ConvertFault("TypeError")}   \* raised by re
              ELSE LET r == TextToHtml(body.s)
                   IN  {IF r.ok THEN Converted(TRUE, r.s) ELSE ConvertFault("other")}
         ELSE {Converted(body.text, body.s)}

\* s.encode('ascii', 'backslashreplace').decode('unicode-escape') for a text
\* without \x, \u, \U, \N, octal or \a \b \f \v escapes: ok is false when the
\* codec raises UnicodeDecodeError (a backslash at the end of the text)
RECURSIVE UnicodeEscape(_)
UnicodeEscape(s) ==
    IF s = <<>> THEN [ok |-> TRUE, s |-> <<>>]
    ELSE IF Head(s) # BS
         THEN LET r == UnicodeEscape(Tail(s)) IN [ok |-> r.ok, s |-> <<Head(s)>> \o r.s]
         ELSE IF Len(s) = 1 THEN [ok |-> FALSE, s |-> <<>>]
              ELSE LET c == s[2]
                       r == UnicodeEscape(SubSeq(s, 3, Len(s)))
                       d == IF c = "n" THEN <<LF>>
                            ELSE IF c = "t" THEN <<TAB>>
                            ELSE IF c = "r" THEN <<CR>>
                            ELSE IF c = BS THEN <<BS>>
                            ELSE IF c = LF THEN <<>>
                            ELSE <<BS, c>>
                   IN  [ok |-> r.ok, s |-> d \o r.s]

(***************************************************************************)
(* notify(): the arguments of a call                                       *)
(***************************************************************************)
\* "seq" is the list(_notifyall(_notifyhandler, ...)) branch of notify(),
\* "async" the async_notify() one (ASYNCIO_SUPPORT)
Strategies == {"seq", "async"}

\* text bodies and titles: empty, plain, and two that hold an escaped backslash
Bodies == {<<>>, <<"q">>, <<BS, BS>>, <<BS, BS, "n">>}
Titles == {<<>>, <<BS, BS>>}

\* a body and a title that are not text (bytes, a number)
NonText == <<"q">>

\* the (body, title) pairs explored: text ones, and those where one of the two
\* is not text
Contents ==
    {[body |-> Content(TRUE, b), title |-> Content(TRUE, <<>>)] : b \in Bodies}
    \cup {[body |-> Content(TRUE, b), title |-> Content(TRUE, t)] :
             b \in {<<>>, <<"q">>}, t \in Titles}
    \cup {[body |-> Content(FALSE, NonText), title |-> Content(TRUE, <<>>)]}
    \cup {[body |-> Content(TRUE, b), title |-> Content(FALSE, NonText)] :
             b \in {<<>>, <<"q">>}}
BodyFormats == {TEXT, MARKDOWN}
DispatchTags == {MatchAll, <<{"a"}>>, <<{"c"}>>}

\* what a plugin's notify() does when called: return True, return False, raise
Outcomes == {"true", "false", "fault"}

NoCall ==
    [strategy |-> "none", body |-> <<>>, body_text |-> TRUE, title |-> <<>>,
     title_text |-> TRUE, body_format |-> TEXT, tag |-> <<>>,
     interpret_escapes |-> FALSE, outcome |-> [t \in Targets |-> "true"]]

MakeCall(strategy, content, body_format, tag, interpret_escapes, outcome) ==
    [strategy |-> strategy, body |-> content.body.s, body_text |-> content.body.text,
     title |-> content.title.s, title_text |-> content.title.text,
     body_format |-> body_format, tag |-> tag,
     interpret_escapes |-> interpret_escapes, outcome |-> outcome]

\* the calls explored: the outcome of a plugin that the tag does not select is
\* never looked at, so it is left at "true"
OutcomesFor(tag) ==
    LET found == Find(servers, cfg, tag)
        sel == {found[k] : k \in 1..Len(found)}
    IN  {o \in [Targets -> Outcomes] : \A t \in Targets \ sel : o[t] = "true"}

Calls ==
    UNION { { MakeCall(st, c, bf, tag, ie, o) :
                st \in Strategies, c \in Contents, bf \in BodyFormats,
                ie \in BOOLEAN, o \in OutcomesFor(tag) } :
            tag \in DispatchTags }

\* conversion_map = dict(): set tells whether the format is a key, text and
\* body are the value stored under it
EmptyMap == [f \in Formats |-> [set |-> FALSE, text |-> TRUE, body |-> <<>>]]
NoPrev == [set |-> FALSE, result |-> "pending", invoked |-> {}]

\* the precondition testing the length of self.servers instead of len(self)
PreconditionFailsOnListLength(body, title0) ==
    \/ Len(servers) = 0
    \/ ~(title0 # <<>> \/ body # <<>>)

\* the TypeError raised at the top of _notifyall(): nothing to notify, or no
\* content to deliver
PreconditionFails(body, title0) ==
    \/ LenOf(servers, cfg) = 0
    \/ ~(title0 # <<>> \/ body # <<>>)

\* _notifyhandler(server, **kwargs): the status it returns
NotifyHandler(outcome) == IF outcome = "true" THEN "true" ELSE "false"

\* all(results) / py3compat.asyncio.notify's "not failed"
Aggregate(ys) ==
    IF \A k \in 1..Len(ys) : ys[k].status = "true" THEN "SUCCESS" ELSE "FAILURE"

\* the start of notify() up to the first iteration of _notifyall's loop
Begin(c) ==
    /\ call' = c
    /\ title' = c.title
    /\ conversion_map' = EmptyMap
    /\ yielded' = <<>>
    /\ invoked' = <<>>
    /\ accesses' = <<>>
    /\ IF PreconditionFails(c.body, c.title)
       THEN /\ pc' = "done"
            /\ result' = "FAILURE"
            /\ todo' = <<>>
       ELSE /\ pc' = "gen"
            /\ result' = "pending"
            /\ todo' = Find(servers, cfg, c.tag)

NotifyBegin(c) ==
    /\ pc = "idle"
    /\ Begin(c)
    /\ prev' = NoPrev
    /\ UNCHANGED <<servers, cfg, op>>

\* the caller calls notify() with some arguments
NotifyCall == pc = "idle" /\ \E c \in Calls : NotifyBegin(c)

\* _notifyhandlerasync making a coroutine of every plugin's call, whatever its
\* asset's async_mode
CooperativeAlways(strategy, server) == strategy = "async"

\* _notifyhandlerasync returning server.async_notify(**kwargs), a coroutine
\* that has not started, instead of calling server.notify() on the spot
Cooperative(strategy, server) == strategy = "async" /\ async_mode[server]

\* notify() without its except TypeError clause
GenRaisesUncaught(e, cm) ==
    /\ pc' = "done"
    /\ result' = "RAISED"
    /\ conversion_map' = cm
    /\ accesses' = Append(accesses, Len(invoked))
    /\ UNCHANGED <<title, todo, yielded, invoked>>

\* the generator ends with an exception: TypeError makes notify() return
\* False, any other exception leaves notify()
GenRaises(e, cm) ==
    /\ pc' = "done"
    /\ result' = IF e = "TypeError" THEN "FAILURE" ELSE "RAISED"
    /\ conversion_map' = cm
    /\ accesses' = Append(accesses, Len(invoked))
    /\ UNCHANGED <<title, todo, yielded, invoked>>

\* yield handler(server, body=conversion_map[server.notify_format], title=title)
GenYields(server, cm, title2) ==
    LET y == [server |-> server, body |-> cm[notify_format[server]].body,
              title |-> title2, status |-> "created"]
    IN  /\ conversion_map' = cm
        /\ accesses' = Append(accesses, Len(invoked))
        /\ title' = title2
        /\ todo' = Tail(todo)
        /\ IF Cooperative(call.strategy, server)
           THEN \* server.async_notify(**kwargs): a coroutine, not yet run
                /\ yielded' = Append(yielded, y)
                /\ UNCHANGED invoked
           ELSE \* _notifyhandler calls server.notify(**kwargs) here
                /\ invoked' = Append(invoked, [server |-> server, body |-> y.body,
                                               title |-> y.title])
                /\ yielded' = Append(yielded,
                      [y EXCEPT !.status = NotifyHandler(call.outcome[server])])
        /\ UNCHANGED <<pc, result>>

\* one iteration of the loop of _notifyall(): conversion, escapes, handler
NotifyGen ==
    /\ pc = "gen"
    /\ todo # <<>>
    /\ LET server == Head(todo)
           fmt == notify_format[server]
       IN  \E cv \in IF conversion_map[fmt].set
                      THEN {Converted(conversion_map[fmt].text, conversion_map[fmt].body)}
                      ELSE Convert(call.body_format, fmt,
                                   Content(call.body_text, call.body)) :
             LET cm1 == [conversion_map EXCEPT ![fmt] =
                            [set |-> TRUE, text |-> cv.text, body |-> cv.s]]
                 eb == UnicodeEscape(cv.s)
                 et == UnicodeEscape(title)
                 cm2 == [cm1 EXCEPT ![fmt].body = eb.s]
             IN  IF cv.fault # "none"
                 THEN GenRaises(cv.fault, conversion_map)
                 ELSE IF ~call.interpret_escapes
                 THEN GenYields(server, cm1, title)
                 ELSE IF ~cv.text
                 THEN GenRaises("TypeError", cm1)     \* AttributeError: no encode()
                 ELSE IF ~eb.ok
                 THEN GenRaises("other", cm1)         \* the fallback decode raises
                 ELSE IF title = <<>>
                 THEN GenYields(server, cm2, title)
                 ELSE IF ~call.title_text
                 THEN GenRaises("TypeError", cm2)     \* AttributeError: no encode()
                 ELSE IF ~et.ok
                 THEN GenRaises("other", cm2)         \* the fallback decode raises
                 ELSE GenYields(server, cm2, et.s)
    /\ UNCHANGED <<servers, cfg, op, call, prev>>

\* async_notify() handing the coroutines over as soon as there is one, the
\* generator not yet exhausted
NotifyCollectedEarly ==
    /\ pc = "gen"
    /\ todo = <<>> \/ (call.strategy = "async" /\ yielded # <<>>)
    /\ IF Len(yielded) = 0
       THEN pc' = "done" /\ result' = "NONE"
       ELSE IF call.strategy = "seq"
            THEN pc' = "done" /\ result' = Aggregate(yielded)
            ELSE pc' = "join" /\ result' = "pending"
    /\ UNCHANGED <<servers, cfg, op, call, todo, conversion_map, title, yielded,
                   invoked, accesses, prev>>

\* the generator is exhausted: notify() aggregates, async_notify() hands the
\* coroutines to py3compat.asyncio.notify
NotifyCollected ==
    /\ pc = "gen"
    /\ todo = <<>>
    /\ IF Len(yielded) = 0
       THEN pc' = "done" /\ result' = "NONE"
       ELSE IF call.strategy = "seq"
            THEN pc' = "done" /\ result' = Aggregate(yielded)
            ELSE pc' = "join" /\ result' = "pending"
    /\ UNCHANGED <<servers, cfg, op, call, todo, conversion_map, title, yielded,
                   invoked, accesses, prev>>

\* a gathered coroutine starts: the plugin's notify() is called
CoroStart(k) ==
    /\ pc = "join"
    /\ yielded[k].status = "created"
    /\ yielded' = [yielded EXCEPT ![k].status = "running"]
    /\ invoked' = Append(invoked, [server |-> yielded[k].server,
                                   body |-> yielded[k].body,
                                   title |-> yielded[k].title])
    /\ UNCHANGED <<servers, cfg, op, pc, call, todo, conversion_map, title,
                   accesses, result, prev>>

\* it completes: True, False, or an exception that counts as a failure
CoroFinish(k) ==
    /\ pc = "join"
    /\ yielded[k].status = "running"
    /\ yielded' = [yielded EXCEPT
                      ![k].status = NotifyHandler(call.outcome[yielded[k].server])]
    /\ UNCHANGED <<servers, cfg, op, pc, call, todo, conversion_map, title, invoked,
                   accesses, result, prev>>

\* every coroutine has completed: the gathered results are aggregated
JoinDone ==
    /\ pc = "join"
    /\ \A k \in 1..Len(yielded) : yielded[k].status \in {"true", "false"}
    /\ pc' = "done"
    /\ result' = Aggregate(yielded)
    /\ UNCHANGED <<servers, cfg, op, call, todo, conversion_map, title, yielded,
                   invoked, accesses, prev>>

\* notify() has returned and the caller moves on
NotifyReturn ==
    /\ pc = "done"
    /\ pc' = "idle"
    /\ call' = NoCall
    /\ todo' = <<>>
    /\ conversion_map' = EmptyMap
    /\ title' = <<>>
    /\ yielded' = <<>>
    /\ invoked' = <<>>
    /\ accesses' = <<>>
    /\ result' = "pending"
    /\ prev' = NoPrev
    /\ UNCHANGED <<servers, cfg, op>>

InvokedSet == {invoked[k].server : k \in 1..Len(invoked)}

\* a call made through async_notify() is made again under the other strategy,
\* with the same plugins behaving the same way; prev keeps what the first run
\* returned and invoked
NotifyOtherStrategy ==
    /\ pc = "done"
    /\ ~prev.set
    /\ call.strategy = "async"
    /\ prev' = [set |-> TRUE, result |-> result, invoked |-> InvokedSet]
    /\ Begin([call EXCEPT !.strategy = "seq"])
    /\ UNCHANGED <<servers, cfg, op>>

\* the Collection a dispatch runs on: what Apprise(servers=...) builds
DispatchInit ==
    /\ servers \in SeqsUpTo(Entries, MaxFanout)
    /\ cfg = InitCfg
    /\ op = NoOp
    /\ pc = "idle"
    /\ call = NoCall
    /\ todo = <<>>
    /\ conversion_map = EmptyMap
    /\ title = <<>>
    /\ yielded = <<>>
    /\ invoked = <<>>
    /\ accesses = <<>>
    /\ result = "pending"
    /\ prev = NoPrev

DispatchNext ==
    \/ NotifyCall
    \/ NotifyGen
    \/ NotifyCollected
    \/ \E k \in 1..Len(yielded) : CoroStart(k)
    \/ \E k \in 1..Len(yielded) : CoroFinish(k)
    \/ JoinDone
    \/ NotifyReturn
    \/ NotifyOtherStrategy

DispatchSpec == DispatchInit /\ [][DispatchNext]_vars

(***************************************************************************)
(* The TEXT to HTML conversion on its own: _notifyall reaching line 497     *)
(* with a text body, for every body over the characters the conversion      *)
(* tells apart.                                                            *)
(***************************************************************************)
Alphabet == {"&", " ", TAB, "<", ">", LF, CR, BS, "t", "T", "q"}

ConvertInit ==
    /\ servers = <<>>
    /\ cfg = InitCfg
    /\ op = NoOp
    /\ pc = "idle"
    /\ call \in {[NoCall EXCEPT !.body = b] : b \in SeqsUpTo(Alphabet, MaxLen)}
    /\ todo = <<>>
    /\ conversion_map = EmptyMap
    /\ title = <<>>
    /\ yielded = <<>>
    /\ invoked = <<>>
    /\ accesses = <<>>
    /\ result = "pending"
    /\ prev = NoPrev

\* conversion_map[HTML] is filled from a TEXT body; a KeyError leaves notify()
ConvertCall ==
    /\ pc = "idle"
    /\ \E cv \in Convert(TEXT, HTML, Content(TRUE, call.body)) :
          /\ conversion_map' =
                IF cv.fault = "none"
                THEN [conversion_map EXCEPT ![HTML] =
                         [set |-> TRUE, text |-> cv.text, body |-> cv.s]]
                ELSE conversion_map
          /\ result' = IF cv.fault = "none" THEN "pending" ELSE "RAISED"
    /\ accesses' = Append(accesses, Len(invoked))
    /\ pc' = "done"
    /\ UNCHANGED <<servers, cfg, op, call, todo, title, yielded, invoked, prev>>

ConvertNext == ConvertCall

ConvertSpec == ConvertInit /\ [][ConvertNext]_vars

Init ==
    /\ servers = <<>>
    /\ cfg = InitCfg
    /\ op = NoOp
    /\ pc = "idle"
    /\ call = NoCall
    /\ todo = <<>>
    /\ conversion_map = EmptyMap
    /\ title = <<>>
    /\ yielded = <<>>
    /\ invoked = <<>>
    /\ accesses = <<>>
    /\ result = "pending"
    /\ prev = NoPrev

Next ==
    \/ \E a \in AddArgs(Min(MaxAdd, MaxServers - Len(servers))) : Add(a)
    \/ Clear
    \/ \E i \in Indices(LenOf(servers, cfg)) : Pop(i)
    \/ \E i \in Indices(LenOf(servers, cfg)) : Get(i)
    \/ \E t \in TagExprs : FindCall(t)

Spec == Init /\ [][Next]_vars

(***************************************************************************)
(* Properties of the flattened index space, find() and add()               *)
(***************************************************************************)
\* count() before the last call
PreCount == LenOf(op.pre_servers, op.pre_cfg)

InRange(i, n) == 0 <= i /\ i < n

\* C5: for every index i with 0 <= i < count(), get(i) returns element i of
\* the flattened iteration over the Collection (count() being its length);
\* what is returned is a plugin, never a configuration object.
C5_GetIsFlattenedElement ==
    /\ LenOf(servers, cfg) = Len(Iter(servers, cfg))
    /\ (op.name = "get" /\ InRange(op.index, LenOf(servers, cfg)))
          => /\ ~op.raised
             /\ op.ret = Iter(servers, cfg)[op.index + 1]
             /\ op.ret \in Targets

\* the layout of the example: an empty configuration object, one with two
\* plugins, one direct plugin; get(2) is the direct plugin
C5_Witness ==
    /\ op.name = "get" /\ op.index = 2 /\ ~op.raised /\ op.ret = "t1"
    /\ servers = <<ConfigEntry("c1"), ConfigEntry("c2"), TargetEntry("t1")>>
    /\ cfg = InitCfg

\* C6: for every index outside 0 <= i < count(), negative ones included, get(i)
\* and pop(i) raise IndexError, return no plugin and leave the Collection and
\* every configuration object unchanged.
C6_OutOfRangeRaises ==
    (op.name \in {"get", "pop"} /\ ~InRange(op.index, PreCount))
       => /\ op.raised
          /\ op.ret = None
          /\ servers = op.pre_servers
          /\ cfg = op.pre_cfg

\* the entry of self.servers that holds element i of the flattened sequence
Owner(svs, cf, i) ==
    CHOOSE k \in 1..Len(svs) :
        /\ LenOf(SubSeq(svs, 1, k), cf) > i
        /\ LenOf(SubSeq(svs, 1, k - 1), cf) <= i

Occurrences(svs, e) == Cardinality({k \in 1..Len(svs) : svs[k] = e})

ConfigsOf(svs) == SelectSeq(svs, IsConfig)

PopRemovedExactly(i) ==
    /\ ~op.raised
    /\ op.ret = GetItem(op.pre_servers, op.pre_cfg, i).ret
    /\ Iter(servers, cfg) = RemoveAt(Iter(op.pre_servers, op.pre_cfg), i + 1)
    /\ LenOf(servers, cfg) = PreCount - 1
    /\ ConfigsOf(servers) = ConfigsOf(op.pre_servers)

\* C7 as stated: for every index i with 0 <= i < count(), pop(i) returns what
\* get(i) returned, the flattened sequence loses exactly element i (count() is
\* one less, the rest keeps its order) and no configuration object leaves
\* self.servers.
C7_PopRemovesExactlyOne ==
    (op.name = "pop" /\ InRange(op.index, PreCount)) => PopRemovedExactly(op.index)

\* C7 as amended: the same, for an element that is a direct plugin or sits in a
\* configuration object that was added to the Collection only once.
C7_PopRemovesExactlyOneUnshared ==
    (/\ op.name = "pop"
     /\ InRange(op.index, PreCount)
     /\ LET e == op.pre_servers[Owner(op.pre_servers, op.pre_cfg, op.index)]
        IN  IsConfig(e) => Occurrences(op.pre_servers, e) = 1)
       => PopRemovedExactly(op.index)

\* a pop that empties a configuration object, which stays in self.servers
C7_Witness ==
    /\ op.name = "pop" /\ ~op.raised /\ op.index = 1
    /\ op.pre_servers = <<TargetEntry("t1"), ConfigEntry("c2"), TargetEntry("t3")>>
    /\ Len(op.pre_cfg["c2"]) = 1
    /\ cfg["c2"] = <<>>
    /\ servers = op.pre_servers

Range(f) == {f[i] : i \in DOMAIN f}

\* a tag set satisfies an expression when it holds every tag of some OR-group
Satisfies(expr, tagset) == \E g \in Range(expr) : g \subseteq tagset

\* C8: find(tagExpr) yields, in flattened order, exactly the plugins whose tag
\* set holds every tag of at least one OR-group; with the match-all sentinel it
\* yields the whole flattened sequence; with any other expression it never
\* yields a plugin without tags.
C8_FindIsFilteredFlattening ==
    op.name = "find" =>
        /\ op.tag = MatchAll => op.found = Iter(servers, cfg)
        /\ op.tag # MatchAll =>
              /\ op.found = SelectSeq(Iter(servers, cfg),
                                      LAMBDA t : Satisfies(op.tag, tags[t]))
              /\ \A k \in 1..Len(op.found) : tags[op.found[k]] # {}

\* an OR of two groups picking one plugin out of a configuration object
C8_Witness ==
    /\ op.name = "find"
    /\ servers = <<TargetEntry("t1"), ConfigEntry("c2")>>
    /\ cfg = InitCfg
    /\ op.tag = <<{"c"}, {"b"}>>
    /\ op.found = <<"t3">>

\* a descriptor that add() turns into an entry of self.servers
Resolves(d) ==
    \/ d.type = "instance"
    \/ d.type \in {"str", "dict"} /\ d.parses /\ d.ctor

EntriesOf(items) ==
    LET ok == SelectSeq(items, Resolves) IN [k \in 1..Len(ok) |-> ok[k].entry]

\* C9: add on a list of descriptors appends, in list order, one entry for every
\* descriptor that resolves and nothing for one that does not, goes on after a
\* failure, never raises, and returns false exactly when some descriptor of
\* the call failed; a string that parses to no descriptor returns false and
\* leaves the Collection unchanged.
C9_AddIsSoft ==
    op.name = "add" =>
        /\ ~op.raised
        /\ cfg = op.pre_cfg
        /\ op.arg.form \in {"list", "dict"} \/ (op.arg.form = "str" /\ op.arg.items # <<>>)
              => /\ servers = op.pre_servers \o EntriesOf(op.arg.items)
                 /\ op.status = (\A k \in 1..Len(op.arg.items) : Resolves(op.arg.items[k]))
        /\ (op.arg.form = "str" /\ op.arg.items = <<>>)
              => op.status = FALSE /\ servers = op.pre_servers

\* a list whose first descriptor fails and whose second resolves
C9_Witness ==
    /\ op.name = "add" /\ op.arg.form = "list" /\ Len(op.arg.items) = 2
    /\ ~Resolves(op.arg.items[1])
    /\ op.arg.items[2].type = "str" /\ Resolves(op.arg.items[2])
    /\ op.status = FALSE
    /\ servers = Append(op.pre_servers, op.arg.items[2].entry)

(***************************************************************************)
(* Properties of notify()                                                  *)
(***************************************************************************)
\* what the tag of the current call selects
Matched == Find(servers, cfg, call.tag)

ContentGiven == call.body # <<>> \/ call.title # <<>>

PreconditionsHold == LenOf(servers, cfg) > 0 /\ ContentGiven

\* body and title are both text
TextContent == call.body_text /\ call.title_text

CountIn(seq, x) == Cardinality({k \in 1..Len(seq) : seq[k] = x})

InvokedServers == [k \in 1..Len(invoked) |-> invoked[k].server]

\* C1: for a notify call whose preconditions hold (count() > 0, a body or a
\* title, text content) the result is NONE exactly when the tag matches no
\* plugin, FAILURE exactly when the call of some matched plugin returned false
\* or faulted, and SUCCESS exactly when at least one plugin matched and the
\* call of every matched plugin returned true.
C1_TriStateAggregation ==
    (pc = "done" /\ PreconditionsHold /\ TextContent) =>
        /\ result = "NONE" <=> Matched = <<>>
        /\ result = "FAILURE" <=> \E k \in 1..Len(yielded) : yielded[k].status = "false"
        /\ result = "SUCCESS" <=>
              /\ Matched # <<>>
              /\ Len(yielded) = Len(Matched)
              /\ \A k \in 1..Len(yielded) : yielded[k].status = "true"

C3_EveryMatchedInvokedOnce ==
    (pc = "done" /\ PreconditionsHold /\ TextContent) =>
        /\ result # "RAISED"
        /\ \A t \in Targets : CountIn(InvokedServers, t) = CountIn(Matched, t)

\* the markdown library is handed a body that is not text: what it does is not
\* this program's to decide
MarkdownOpen == ~call.body_text /\ call.body_format = MARKDOWN

\* C4: on the same Collection, with the same arguments and the same behaviour
\* of every plugin (and of the markdown library), the two strategies return
\* the same result and call the same set of plugins, whatever the order in
\* which the coroutines complete.
C4_StrategiesAgree ==
    (pc = "done" /\ prev.set /\ ~MarkdownOpen) =>
        /\ result = prev.result
        /\ InvokedSet = prev.invoked

\* C10: notify returns None, not False, when nothing was sent because the tag
\* matched nothing or because the configuration objects loaded are empty.
C10_NoneWhenNothingToSend ==
    (pc = "done" /\ ContentGiven /\ Len(servers) > 0 /\ Matched = <<>>) =>
        result = "NONE"

\* the body is not text, or the title is not and is not empty
NonTextContent == ~call.body_text \/ (~call.title_text /\ call.title # <<>>)

\* the first thing the loop does is hand a body that is not text to markdown()
MarkdownGetsNonText ==
    /\ ~call.body_text
    /\ call.body_format = MARKDOWN
    /\ Matched # <<>>
    /\ notify_format[Head(Matched)] = HTML

C12_SameContentPerFormat ==
    \A j, k \in 1..Len(yielded) :
        /\ yielded[j].title = yielded[k].title
        /\ notify_format[yielded[j].server] = notify_format[yielded[k].server]
              => yielded[j].body = yielded[k].body

(***************************************************************************)
(* Properties of the TEXT to HTML conversion                               *)
(***************************************************************************)
\* what the table of the specification puts in place of one character
ClaimedChar(c) ==
    IF c = "&" THEN <<"&", "a", "m", "p", ";">>
    ELSE IF c = " " THEN NBSP
    ELSE IF c = TAB THEN NBSP \o NBSP \o NBSP
    ELSE IF c = "<" THEN <<"&", "l", "t", ";">>
    ELSE IF c = ">" THEN <<"&", "g", "t", ";">>
    ELSE <<c>>

\* the conversion as the specification describes it, a line terminator being a
\* line feed with the carriage returns before it
RECURSIVE ClaimedHtml(_)
ClaimedHtml(s) ==
    IF s = <<>> THEN <<>>
    ELSE LET rest == SkipCR(s) IN
         IF rest # <<>> /\ Head(rest) = LF
         THEN <<"<", "b", "r", "/", ">", CR, LF>> \o ClaimedHtml(Tail(rest))
         ELSE ClaimedChar(Head(s)) \o ClaimedHtml(Tail(s))

\* C13: the TEXT to HTML conversion never faults on a text body and is a single
\* pass in which & becomes &amp;, a space &nbsp;, a tab character three &nbsp;,
\* < &lt;, > &gt;, every line terminator <br/> CR LF, and every other character
\* is copied unchanged.
C13_TextToHtmlSinglePass ==
    pc = "done" =>
        /\ result # "RAISED"
        /\ conversion_map[HTML].set
        /\ conversion_map[HTML].body = ClaimedHtml(call.body)

(***************************************************************************)
(* Properties of the order of cache accesses and plugin calls              *)
(***************************************************************************)
\* the plugins among the first n matched whose notify() is called by the
\* handler inside the loop: all of them under list(_notifyall(_notifyhandler)),
\* those whose asset has async_mode off under async_notify()
CalledInLoop(n) ==
    Cardinality({j \in 1..n : call.strategy = "seq" \/ ~async_mode[Matched[j]]})

\* C14 as stated: in every dispatch, under both strategies, conversion_map is
\* created, written and read before the first plugin's notify() is called: no
\* use of the cache comes after a call.
C14_CacheBeforeFanOut ==
    \A k \in 1..Len(accesses) : accesses[k] = 0

\* C14 as amended: conversion_map is used only by the loop of _notifyall, on
\* the coordinating call path, once per matched plugin and before that plugin
\* is handed to the handler; the uses are over when the gathered calls of
\* async_notify() start; the calls that come before the k-th use are those the
\* handler made inside the loop for the plugins before the k-th.
C14_CacheUsedInLoopOnly ==
    call.strategy \in Strategies =>
        /\ Len(accesses) <= Len(Matched)
        /\ \A k \in 1..Len(accesses) : accesses[k] = CalledInLoop(k - 1)
        /\ pc = "gen" => Len(accesses) = Len(yielded)
        /\ pc = "join" => Len(accesses) = Len(Matched)
        /\ \A k \in 1..Len(yielded) :
              yielded[k].status = "running" => Len(accesses) = Len(Matched)

\* async_notify() on a plugin with async_mode off followed by one with it on:
\* the second use of the cache comes after the first plugin's call
C14_Witness ==
    /\ pc = "done" /\ result = "SUCCESS"
    /\ call.strategy = "async"
    /\ Matched = <<"t2", "t3">>
    /\ accesses = <<0, 1>>

\* the plugins handed to the handler so far whose asset has async_mode off
BlockingYielded ==
    LET ys == SelectSeq(yielded, LAMBDA y : ~async_mode[y.server])
    IN  [k \in 1..Len(ys) |-> ys[k].server]

Completed(y) == y.status \in {"true", "false"}

====
